---- MODULE Spec2Model ----
(***************************************************************************)
(* Model of cookie_analyzer: CSVFile / CookiesAnalyzer (analyzer.py), the   *)
(* result records (models.py) and the command line entry point (cli.py).   *)
(*                                                                         *)
(* Text is modelled as a sequence of tokens.  A token is either one of the *)
(* characters the code treats specially (the separator ",", a blank " ",  *)
(* the line terminator "\n") or an indivisible run of other characters     *)
(* ("cookie1", "2021-12-09T14:19:00+00:00", ...).  A file is a sequence of *)
(* lines, each line a sequence of tokens ending with "\n".                 *)
(***************************************************************************)
EXTENDS Integers, Sequences, FiniteSets

VARIABLES
    file,             \* contents of the stream: sequence of lines
    path_exists,      \* cli: does args.file name an existing file
    date_input,       \* cli: args.date
    csv,              \* CSVFile state: stream position and _current_line_number
    pc,               \* "new", "failed", "idle", "iter"
    _data_parsers,    \* CookiesAnalyzer._data_parsers (header names, in order)
    init_error,       \* error raised by the constructor (NoError if none)
    target_date,      \* argument of the call in progress / last call
    cookie_counts,    \* local cookie_counts of _get_cookies_analysis
    max_count,        \* local max_count of _get_cookies_analysis
    result,           \* outcome of the last finished call
    first,            \* outcome of the first finished call (date, result)
    between,          \* has anything been done since the first finished call
    cli               \* cli.main: position, target date, stdout, stderr, exit status

vars == <<file, path_exists, date_input, csv, pc, _data_parsers, init_error,
          target_date, cookie_counts, max_count, result, first, between, cli>>

-----------------------------------------------------------------------------
(* Bounds of the explored inputs *)

MaxRows == 4        \* data rows of a file with header row cookie,timestamp
MaxSwappedRows == 3 \* data rows of a file with header row timestamp,cookie
MaxOddRows == 1     \* data rows of a file with any other header row
MaxRepeatRows == 3  \* data rows of a file analysed repeatedly
MaxCliRows == 3     \* data rows of a file handed to the command line

-----------------------------------------------------------------------------
(* Program constants *)

DATA_SEPARATOR == ","
COOKIE_HEADER == "cookie"
TIMESTAMP_HEADER == "timestamp"

(* str.strip() removes leading and trailing whitespace *)
Whitespace == {" ", "\n"}

-----------------------------------------------------------------------------
(* Library functions used by the code *)

RECURSIVE split(_, _)
(* str.split(sep): the pieces between separators; never empty *)
split(line, sep) ==
    IF \E i \in 1..Len(line) : line[i] = sep
    THEN LET i == CHOOSE k \in 1..Len(line) :
                      line[k] = sep /\ \A j \in 1..(k - 1) : line[j] # sep
         IN  <<SubSeq(line, 1, i - 1)>> \o split(SubSeq(line, i + 1, Len(line)), sep)
    ELSE <<line>>

RECURSIVE lstrip(_)
lstrip(s) ==
    IF s # <<>> /\ Head(s) \in Whitespace THEN lstrip(Tail(s)) ELSE s

RECURSIVE rstrip(_)
rstrip(s) ==
    IF s # <<>> /\ s[Len(s)] \in Whitespace
    THEN rstrip(SubSeq(s, 1, Len(s) - 1))
    ELSE s

strip(s) == rstrip(lstrip(s))

(* The timestamp texts of the sample log and the date-times they denote.   *)
(* day is the day of December 2021 in the timestamp's own offset.          *)
IsoDateTimes ==
    [t \in {"2021-12-09T14:19:00+00:00", "2021-12-09T10:13:00+00:00",
            "2021-12-08T22:03:00+00:00", "2021-12-07T23:30:00+00:00"} |->
        CASE t = "2021-12-09T14:19:00+00:00" -> [day |-> 9, minute |-> 859]
          [] t = "2021-12-09T10:13:00+00:00" -> [day |-> 9, minute |-> 613]
          [] t = "2021-12-08T22:03:00+00:00" -> [day |-> 8, minute |-> 1323]
          [] t = "2021-12-07T23:30:00+00:00" -> [day |-> 7, minute |-> 1410]]

(* The date-only texts the command line is given *)
IsoDates ==
    [t \in {"2021-12-09", "2021-12-08"} |->
        CASE t = "2021-12-09" -> [day |-> 9, minute |-> 0]
          [] t = "2021-12-08" -> [day |-> 8, minute |-> 0]]

NoDateTime == [day |-> 0, minute |-> 0]

(* datetime.fromisoformat: ok is FALSE where it raises ValueError *)
fromisoformat(value) ==
    IF Len(value) = 1 /\ value[1] \in DOMAIN IsoDateTimes
    THEN [ok |-> TRUE, value |-> IsoDateTimes[value[1]]]
    ELSE IF Len(value) = 1 /\ value[1] \in DOMAIN IsoDates
    THEN [ok |-> TRUE, value |-> IsoDates[value[1]]]
    ELSE [ok |-> FALSE, value |-> NoDateTime]

(* datetime.date() *)
date(dt) == dt.day

-----------------------------------------------------------------------------
(* CSVFile *)

extract_data_from_line(line) ==
    LET pieces == split(line, DATA_SEPARATOR)
    IN  [i \in 1..Len(pieces) |-> strip(pieces[i])]

(* variants of goto_beginning that leave the position, or the line counter *)
goto_beginning_no_seek(c) == c

goto_beginning_keeps_line(c) == [c EXCEPT !.position = 0]

goto_beginning(c) ==
    [c EXCEPT !.position = 0, !._current_line_number = 0]

(* file_stream.readline(): the next line, or the empty string at the end *)
readline(f, c) ==
    IF c.position < Len(f)
    THEN [line |-> f[c.position + 1], eof |-> FALSE,
          csv |-> [c EXCEPT !.position = c.position + 1]]
    ELSE [line |-> <<>>, eof |-> TRUE, csv |-> c]

(* get_headers: the header names and the CSVFile state it leaves *)
get_headers(f, c) ==
    LET r == readline(f, goto_beginning(c))
    IN  [headers |-> extract_data_from_line(r.line),
         csv |-> [r.csv EXCEPT !._current_line_number = @ + 1]]

(* iter_rows up to its loop: rewind, and skip the header row *)
iter_rows_start(f, c, skip_header) ==
    LET b == goto_beginning(c)
    IN  IF skip_header
        THEN [readline(f, b).csv EXCEPT !._current_line_number = @ + 1]
        ELSE b

(* one round of the loop of iter_rows: the row yielded, or exhaustion *)
iter_rows_next(f, c) ==
    LET r == readline(f, c)
    IN  IF r.eof
        THEN [done |-> TRUE, row |-> <<>>, csv |-> c]
        ELSE [done |-> FALSE, row |-> extract_data_from_line(r.line),
              csv |-> [r.csv EXCEPT !._current_line_number = @ + 1]]

-----------------------------------------------------------------------------
(* Errors.  what: "header", "cookie", "timestamp", "columns" (the ValueErrors *)
(* the code raises), "date" (cli), "arguments" (the TypeError of CookieLog). *)

NoError == [type |-> "", what |-> "", line |-> 0, value |-> <<>>]

ValueError(what, line, value) ==
    [type |-> "ValueError", what |-> what, line |-> line, value |-> value]

(* the CookieLog constructor with a keyword missing: the message has no line *)
TypeError == [type |-> "TypeError", what |-> "arguments", line |-> 0, value |-> <<>>]

-----------------------------------------------------------------------------
(* CookiesAnalyzer: parsers *)

(* variant of _cookie_parser without the emptiness test *)
_cookie_parser_accepts_empty(value, line) ==
    [ok |-> TRUE, error |-> NoError, cookie |-> value, timestamp |-> NoDateTime]

_cookie_parser(value, line) ==
    IF Len(value) = 0
    THEN [ok |-> FALSE, error |-> ValueError("cookie", line, value),
          cookie |-> <<>>, timestamp |-> NoDateTime]
    ELSE [ok |-> TRUE, error |-> NoError, cookie |-> value, timestamp |-> NoDateTime]

_timestamp_parser(value, line) ==
    LET parsed_value == fromisoformat(value)
    IN  IF parsed_value.ok
        THEN [ok |-> TRUE, error |-> NoError,
              cookie |-> <<>>, timestamp |-> parsed_value.value]
        ELSE [ok |-> FALSE, error |-> ValueError("timestamp", line, value),
              cookie |-> <<>>, timestamp |-> NoDateTime]

(* data_parser.parsing_func(value) of the parser bound to header_name *)
parsing_func(header_name, value, line) ==
    IF header_name = COOKIE_HEADER
    THEN _cookie_parser(value, line)
    ELSE _timestamp_parser(value, line)

RECURSIVE _init_data_parsers_loop(_, _)
_init_data_parsers_loop(headers_list, data_parsers) ==
    IF headers_list = <<>>
    THEN [ok |-> TRUE, error |-> NoError, data_parsers |-> data_parsers]
    ELSE LET header == Head(headers_list)
         IN  IF header = <<COOKIE_HEADER>>
             THEN _init_data_parsers_loop(Tail(headers_list),
                                          Append(data_parsers, COOKIE_HEADER))
             ELSE IF header = <<TIMESTAMP_HEADER>>
             THEN _init_data_parsers_loop(Tail(headers_list),
                                          Append(data_parsers, TIMESTAMP_HEADER))
             ELSE [ok |-> FALSE, error |-> ValueError("header", 0, header),
                   data_parsers |-> <<>>]

(* variant of _init_data_parsers that binds in a fixed order *)
_init_data_parsers_fixed_order(headers_list) ==
    LET r == _init_data_parsers_loop(headers_list, <<>>)
    IN  IF r.ok /\ Len(r.data_parsers) = 2
        THEN [r EXCEPT !.data_parsers = <<COOKIE_HEADER, TIMESTAMP_HEADER>>]
        ELSE r

(* one binding per header, in header order; the first unsupported name raises *)
_init_data_parsers(headers_list) ==
    _init_data_parsers_loop(headers_list, <<>>)

-----------------------------------------------------------------------------
(* CookiesAnalyzer: row decoding *)

NoLog == [cookie |-> <<>>, timestamp |-> NoDateTime]

RECURSIVE _parse_cookie_log_loop(_, _, _, _, _)
(* the for loop of _parse_cookie_log; keys is the key set of cookie_log *)
_parse_cookie_log_loop(parsers, row_data, line, i, acc) ==
    IF i > Len(row_data)
    THEN acc
    ELSE LET header_name == parsers[i]
             p == parsing_func(header_name, row_data[i], line)
         IN  IF ~p.ok
             THEN [acc EXCEPT !.ok = FALSE, !.error = p.error]
             ELSE _parse_cookie_log_loop(parsers, row_data, line, i + 1,
                      IF header_name = COOKIE_HEADER
                      THEN [acc EXCEPT !.keys = @ \cup {header_name},
                                       !.log.cookie = p.cookie]
                      ELSE [acc EXCEPT !.keys = @ \cup {header_name},
                                       !.log.timestamp = p.timestamp])

_parse_cookie_log(parsers, row_data, line) ==
    IF Len(row_data) # Len(parsers)
    THEN [ok |-> FALSE, error |-> ValueError("columns", line, <<>>), log |-> NoLog]
    ELSE LET r == _parse_cookie_log_loop(parsers, row_data, line, 1,
                      [ok |-> TRUE, error |-> NoError, keys |-> {}, log |-> NoLog])
         IN  IF ~r.ok
             THEN [ok |-> FALSE, error |-> r.error, log |-> NoLog]
             ELSE IF r.keys # {COOKIE_HEADER, TIMESTAMP_HEADER}
             THEN [ok |-> FALSE, error |-> TypeError, log |-> NoLog]
             ELSE [ok |-> TRUE, error |-> NoError, log |-> r.log]

-----------------------------------------------------------------------------
(* CookiesAnalyzer: aggregation.  A dict is the sequence of its items in    *)
(* insertion order, each item [k |-> key, v |-> value].                     *)

dict_get(d, key, default) ==
    IF \E i \in 1..Len(d) : d[i].k = key
    THEN d[CHOOSE i \in 1..Len(d) : d[i].k = key].v
    ELSE default

dict_set(d, key, value) ==
    IF \E i \in 1..Len(d) : d[i].k = key
    THEN [i \in 1..Len(d) |-> IF d[i].k = key THEN [k |-> key, v |-> value] ELSE d[i]]
    ELSE Append(d, [k |-> key, v |-> value])

(* variant of max that keeps the latest count *)
max_latest(a, b) == b

max(a, b) == IF b > a THEN b ELSE a

(* variant of the stop test that never stops *)
is_past_target_never(log_date, target) == FALSE

(* the test that ends the iteration *)
is_past_target(log_date, target) == log_date < target

(* variant of the count test that also counts later rows *)
is_on_target_or_later(log_date, target) == log_date >= target

(* the test that counts the row *)
is_on_target(log_date, target) == log_date = target

(* One round of the loop of _get_cookies_analysis on the state              *)
(* s = [csv, cookie_counts, max_count].                                     *)
(* branch: "exhausted" (the iterator ended), "raise", "break", "count",     *)
(* "skip".                                                                  *)
_get_cookies_analysis_round(f, parsers, target, s) ==
    LET it == iter_rows_next(f, s.csv)
        parsed == _parse_cookie_log(parsers, it.row, it.csv._current_line_number)
        log_date == date(parsed.log.timestamp)
        count == dict_get(s.cookie_counts, parsed.log.cookie, 0) + 1
        same == [branch |-> "skip", error |-> NoError, csv |-> it.csv,
                 cookie_counts |-> s.cookie_counts, max_count |-> s.max_count]
    IN  IF it.done THEN [same EXCEPT !.branch = "exhausted"]
        ELSE IF ~parsed.ok THEN [same EXCEPT !.branch = "raise", !.error = parsed.error]
        ELSE IF is_past_target(log_date, target) THEN [same EXCEPT !.branch = "break"]
        ELSE IF is_on_target(log_date, target)
        THEN [same EXCEPT !.branch = "count",
                          !.cookie_counts = dict_set(@, parsed.log.cookie, count),
                          !.max_count = max(@, count)]
        ELSE same

(* CookiesAnalysis *)
CookiesAnalysis(cookies_count_map, maxc) ==
    [cookies_count_map |-> cookies_count_map, max_count |-> maxc]

(* variant of the selection that keeps a single winner *)
most_active_single(cookies_analysis) ==
    LET AtMax(item) == item.v = cookies_analysis.max_count
        kept == SelectSeq(cookies_analysis.cookies_count_map, AtMax)
    IN  IF kept = <<>> THEN <<>> ELSE <<kept[1].k>>

(* the loop of get_most_active over the items of the counts map *)
most_active_of(cookies_analysis) ==
    LET AtMax(item) == item.v = cookies_analysis.max_count
        kept == SelectSeq(cookies_analysis.cookies_count_map, AtMax)
    IN  [i \in 1..Len(kept) |-> kept[i].k]

(* Outcome of a call of get_most_active *)
NoResult ==
    [kind |-> "none", analysis |-> CookiesAnalysis(<<>>, 0),
     most_active |-> <<>>, error |-> NoError]

Returned(counts, maxc) ==
    [kind |-> "ok", analysis |-> CookiesAnalysis(counts, maxc),
     most_active |-> most_active_of(CookiesAnalysis(counts, maxc)),
     error |-> NoError]

Raised(error) ==
    [kind |-> "error", analysis |-> CookiesAnalysis(<<>>, 0),
     most_active |-> <<>>, error |-> error]

RECURSIVE get_most_active_from(_, _, _, _)
get_most_active_from(f, parsers, target, s) ==
    LET r == _get_cookies_analysis_round(f, parsers, target, s)
    IN  IF r.branch = "raise" THEN Raised(r.error)
        ELSE IF r.branch \in {"exhausted", "break"}
        THEN Returned(r.cookie_counts, r.max_count)
        ELSE get_most_active_from(f, parsers, target,
                 [csv |-> r.csv, cookie_counts |-> r.cookie_counts,
                  max_count |-> r.max_count])

(* A whole use of the library on a stream: construct, then get_most_active *)
Analyse(f, target) ==
    LET c0 == [position |-> 0, _current_line_number |-> 0]
        h == get_headers(f, c0)
        p == _init_data_parsers(h.headers)
    IN  IF ~p.ok THEN Raised(p.error)
        ELSE get_most_active_from(f, p.data_parsers, target,
                 [csv |-> iter_rows_start(f, h.csv, TRUE),
                  cookie_counts |-> <<>>, max_count |-> 0])

-----------------------------------------------------------------------------
(* Inputs *)

HeaderCT == <<"cookie", ",", "timestamp", "\n">>
HeaderTC == <<"timestamp", ",", " ", "cookie", "\n">>
StdHeaders == {HeaderCT, HeaderTC}

OddHeaders ==
    { <<"cookie", "\n">>,
      <<"cookie", ",", "cookie", "\n">>,
      <<"cookie", ",", "foo", "\n">>,
      <<"foo", ",", "timestamp", "\n">> }

(* Raw cookie and timestamp fields of a data row, before stripping *)
RowFields ==
    { [c |-> <<"cookie1">>,           t |-> <<"2021-12-09T14:19:00+00:00">>],
      [c |-> <<"cookie2", " ">>,      t |-> <<" ", "2021-12-09T10:13:00+00:00">>],
      [c |-> <<"cookie3">>,           t |-> <<"2021-12-08T22:03:00+00:00">>],
      [c |-> <<"cookie1">>,           t |-> <<"2021-12-07T23:30:00+00:00">>],
      [c |-> <<" ">>,                 t |-> <<"2021-12-09T14:19:00+00:00">>],
      [c |-> <<"cookie1">>,           t |-> <<"not-a-date">>] }

(* A row with one field fewer than the header row *)
ShortRow == <<"cookie1", "\n">>

(* The line of a data row in a file whose header row is header *)
RowLine(header, r) ==
    IF header = HeaderTC
    THEN r.t \o <<",">> \o r.c \o <<"\n">>
    ELSE r.c \o <<",">> \o r.t \o <<"\n">>

RowLines(header) == {RowLine(header, r) : r \in RowFields} \cup {ShortRow}

(* The files with the given header rows and at most n data rows *)
Files(headers, n) ==
    UNION { UNION { {<<h>> \o rows : rows \in [1..k -> RowLines(h)]} : k \in 0..n }
            : h \in headers }

EmptyFile == <<>>

TargetDates == {8, 9}

DateInputs == { <<"2021-12-09">>, <<"2021-12-08">>, <<"12-09-2021">> }

-----------------------------------------------------------------------------
(* State *)

NoCli == [pc |-> "none", target |-> 0, stdout |-> <<>>, stderr |-> <<>>, status |-> -1]

InitAnalyzer ==
    /\ csv = [position |-> 0, _current_line_number |-> 0]
    /\ pc = "new"
    /\ _data_parsers = <<>>
    /\ init_error = NoError
    /\ target_date = 0
    /\ cookie_counts = <<>>
    /\ max_count = 0
    /\ result = NoResult

(* A client of the library holding a stream *)
Init ==
    /\ file \in Files({HeaderCT}, MaxRows) \cup Files({HeaderTC}, MaxSwappedRows)
                    \cup Files(OddHeaders, MaxOddRows) \cup {EmptyFile}
    /\ path_exists = TRUE
    /\ date_input = <<>>
    /\ InitAnalyzer
    /\ first = [set |-> "off", date |-> 0, result |-> NoResult]
    /\ between = {}
    /\ cli = NoCli

-----------------------------------------------------------------------------
(* Library operations *)

cliVars == <<path_exists, date_input, cli>>
loopVars == <<target_date, cookie_counts, max_count, result>>
histVars == <<first, between>>

(* CookiesAnalyzer.__init__ *)
DoConstruct ==
    /\ pc = "new"
    /\ LET h == get_headers(file, csv)
           p == _init_data_parsers(h.headers)
       IN  /\ csv' = h.csv
           /\ _data_parsers' = p.data_parsers
           /\ init_error' = p.error
           /\ pc' = IF p.ok THEN "idle" ELSE "failed"
    /\ UNCHANGED <<file, loopVars, histVars>>

Construct ==
    /\ cli.pc = "none"
    /\ DoConstruct
    /\ UNCHANGED cliVars

(* CSVFile.get_headers, called by the client between two analyses *)
GetHeaders ==
    /\ cli.pc = "none"
    /\ pc = "idle"
    /\ csv' = get_headers(file, csv).csv
    /\ between' = IF first.set = "yes" THEN between \cup {"headers"} ELSE between
    /\ UNCHANGED <<file, pc, _data_parsers, init_error, loopVars, first, cliVars>>

(* get_most_active(d) up to the first round of the loop *)
DoStartCall(d) ==
    /\ pc = "idle"
    /\ pc' = "iter"
    /\ target_date' = d
    /\ max_count' = 0
    /\ cookie_counts' = <<>>
    /\ result' = NoResult
    /\ csv' = iter_rows_start(file, csv, TRUE)
    /\ UNCHANGED <<file, _data_parsers, init_error, histVars>>

StartCall ==
    /\ cli.pc = "none"
    /\ \E d \in TargetDates : DoStartCall(d)
    /\ UNCHANGED cliVars

Round ==
    _get_cookies_analysis_round(file, _data_parsers, target_date,
        [csv |-> csv, cookie_counts |-> cookie_counts, max_count |-> max_count])

(* the call ends with outcome r, having stopped early or not *)
Finish(r, kind) ==
    /\ pc' = "idle"
    /\ result' = r
    /\ IF first.set = "no"
       THEN /\ first' = [set |-> "yes", date |-> target_date, result |-> r]
            /\ between' = between
       ELSE IF first.set = "yes"
       THEN /\ first' = first
            /\ between' =
                 IF target_date # first.date THEN between \cup {"other", kind}
                 ELSE IF {"headers", "other"} \subseteq between
                 THEN between \cup {"repeat"}
                 ELSE between
       ELSE UNCHANGED histVars

(* the row is dated later than the target date *)
RowSkip ==
    /\ pc = "iter"
    /\ Round.branch = "skip"
    /\ csv' = Round.csv
    /\ UNCHANGED <<file, pc, _data_parsers, init_error, loopVars, histVars, cliVars>>

(* the row is dated on the target date *)
RowCount ==
    /\ pc = "iter"
    /\ Round.branch = "count"
    /\ csv' = Round.csv
    /\ cookie_counts' = Round.cookie_counts
    /\ max_count' = Round.max_count
    /\ UNCHANGED <<file, pc, _data_parsers, init_error, target_date, result,
                   histVars, cliVars>>

(* the row is dated earlier than the target date: break, then return *)
RowBreak ==
    /\ pc = "iter"
    /\ Round.branch = "break"
    /\ csv' = Round.csv
    /\ Finish(Returned(cookie_counts, max_count), "stopped")
    /\ UNCHANGED <<file, _data_parsers, init_error, target_date, cookie_counts,
                   max_count, cliVars>>

(* the row does not decode: the exception leaves the call *)
RowRaise ==
    /\ pc = "iter"
    /\ Round.branch = "raise"
    /\ csv' = Round.csv
    /\ Finish(Raised(Round.error), "raised")
    /\ UNCHANGED <<file, _data_parsers, init_error, target_date, cookie_counts,
                   max_count, cliVars>>

(* the stream is exhausted: return *)
RowsExhausted ==
    /\ pc = "iter"
    /\ Round.branch = "exhausted"
    /\ csv' = Round.csv
    /\ Finish(Returned(cookie_counts, max_count), "finished")
    /\ UNCHANGED <<file, _data_parsers, init_error, target_date, cookie_counts,
                   max_count, cliVars>>

Next ==
    \/ Construct
    \/ GetHeaders
    \/ StartCall
    \/ RowSkip
    \/ RowCount
    \/ RowBreak
    \/ RowRaise
    \/ RowsExhausted

Spec == Init /\ [][Next]_vars

-----------------------------------------------------------------------------
(* Repeated use of one analyzer: the outcome of the first finished call is  *)
(* kept in first, and between records what was done after it: "headers"    *)
(* (get_headers), "other" with "stopped", "raised" or "finished" (a call   *)
(* for another date and how it ended), "repeat" (a call for the first date *)
(* finished after both a header read and a call for another date).         *)

InitRepeat ==
    /\ file \in Files(StdHeaders, MaxRepeatRows)
    /\ path_exists = TRUE
    /\ date_input = <<>>
    /\ InitAnalyzer
    /\ first = [set |-> "no", date |-> 0, result |-> NoResult]
    /\ between = {}
    /\ cli = NoCli

SpecRepeat == InitRepeat /\ [][Next]_vars

-----------------------------------------------------------------------------
(* cli.py *)

FileNotFoundError ==
    [type |-> "FileNotFoundError", what |-> "file", line |-> 0, value |-> <<>>]

(* variant of parse_date_input that falls back to a date *)
parse_date_input_lenient(input) ==
    LET parsed == fromisoformat(input)
    IN  IF parsed.ok
        THEN [ok |-> TRUE, error |-> NoError, date |-> date(parsed.value)]
        ELSE [ok |-> TRUE, error |-> NoError, date |-> 9]

parse_date_input(input) ==
    LET parsed == fromisoformat(input)
    IN  IF parsed.ok
        THEN [ok |-> TRUE, error |-> NoError, date |-> date(parsed.value)]
        ELSE [ok |-> FALSE, error |-> ValueError("date", 0, input), date |-> 0]

(* exit status of sys.exit(1) in both handlers *)
ExitFailure == 1
(* exit status when main returns *)
ExitSuccess == 0

(* an except clause of main: message to the error stream, sys.exit(1) *)
MainFail(error) ==
    cli' = [cli EXCEPT !.pc = "exit", !.stderr = Append(@, error),
                       !.status = ExitFailure]

InitCli ==
    /\ file \in Files(StdHeaders, MaxCliRows) \cup Files(OddHeaders, MaxOddRows)
                    \cup {EmptyFile}
    /\ path_exists \in BOOLEAN
    /\ date_input \in DateInputs
    /\ InitAnalyzer
    /\ first = [set |-> "off", date |-> 0, result |-> NoResult]
    /\ between = {}
    /\ cli = [NoCli EXCEPT !.pc = "args"]

(* target_date = parse_date_input(args.date) *)
MainParseDate ==
    /\ cli.pc = "args"
    /\ LET d == parse_date_input(date_input)
       IN  IF d.ok
           THEN cli' = [cli EXCEPT !.pc = "dated", !.target = d.date]
           ELSE MainFail(d.error)
    /\ UNCHANGED <<file, path_exists, date_input, csv, pc, _data_parsers,
                   init_error, loopVars, histVars>>

(* open(args.file, "r") *)
MainOpen ==
    /\ cli.pc = "dated"
    /\ IF path_exists
       THEN cli' = [cli EXCEPT !.pc = "opened"]
       ELSE MainFail(FileNotFoundError)
    /\ UNCHANGED <<file, path_exists, date_input, csv, pc, _data_parsers,
                   init_error, loopVars, histVars>>

(* analyzer = CookiesAnalyzer(file) *)
MainConstruct ==
    /\ cli.pc = "opened"
    /\ DoConstruct
    /\ UNCHANGED cliVars

(* analyzer.get_most_active(target_date) *)
MainGetMostActive ==
    /\ cli.pc = "opened"
    /\ result.kind = "none"
    /\ DoStartCall(cli.target)
    /\ UNCHANGED cliVars

(* for cookie in most_active_cookies: print(cookie); main returns *)
MainPrint ==
    /\ cli.pc = "opened"
    /\ pc = "idle"
    /\ result.kind = "ok"
    /\ cli' = [cli EXCEPT !.pc = "exit", !.stdout = @ \o result.most_active,
                          !.status = ExitSuccess]
    /\ UNCHANGED <<file, path_exists, date_input, csv, pc, _data_parsers,
                   init_error, loopVars, histVars>>

(* except Exception as e *)
MainExcept ==
    /\ cli.pc = "opened"
    /\ \/ pc = "failed" /\ MainFail(init_error)
       \/ pc = "idle" /\ result.kind = "error" /\ MainFail(result.error)
    /\ UNCHANGED <<file, path_exists, date_input, csv, pc, _data_parsers,
                   init_error, loopVars, histVars>>

NextCli ==
    \/ MainParseDate
    \/ MainOpen
    \/ MainConstruct
    \/ MainGetMostActive
    \/ RowSkip
    \/ RowCount
    \/ RowBreak
    \/ RowRaise
    \/ RowsExhausted
    \/ MainPrint
    \/ MainExcept

SpecCli == InitCli /\ [][NextCli]_vars

-----------------------------------------------------------------------------
(* What the file holds, read off its lines without the decoder             *)

HeaderNames == IF file = <<>> THEN <<<<>>>> ELSE extract_data_from_line(file[1])

(* the header row is the two recognized headers, once each *)
StdFile ==
    HeaderNames \in { <<<<"cookie">>, <<"timestamp">>>>,
                      <<<<"timestamp">>, <<"cookie">>>> }

CookieCol == IF HeaderNames[1] = <<"cookie">> THEN 1 ELSE 2

IsTimestamp(field) == Len(field) = 1 /\ field[1] \in DOMAIN IsoDateTimes

(* Data row i of a file with a standard header row: what is wrong with it   *)
(* ("none" if nothing, else the first fault in field order), its cookie and *)
(* the day of its timestamp (0 where the row has none).                     *)
RowFact(i) ==
    LET fs == extract_data_from_line(file[i])
        c == CookieCol
        two == Len(fs) = 2
        stamped == two /\ IsTimestamp(fs[3 - c])
        named == two /\ fs[c] # <<>>
    IN  [fault |-> IF ~two THEN "columns"
                   ELSE IF c = 1 /\ ~named THEN "cookie"
                   ELSE IF ~stamped THEN "timestamp"
                   ELSE IF ~named THEN "cookie"
                   ELSE "none",
         cookie |-> IF two THEN fs[c] ELSE <<>>,
         day |-> IF stamped THEN IsoDateTimes[fs[3 - c][1]].day ELSE 0]

DataRows == 2..Len(file)

(* the facts of all data rows, as a sequence indexed from 1 for line 2 *)
RECURSIVE RowFactsFrom(_)
RowFactsFrom(i) ==
    IF i > Len(file) THEN <<>> ELSE <<RowFact(i)>> \o RowFactsFrom(i + 1)

RowFacts == RowFactsFrom(2)

Fault(F, i) == F[i - 1].fault
CookieAt(F, i) == F[i - 1].cookie
DayAt(F, i) == F[i - 1].day

(* the rows before the first row dated earlier than the target date d *)
BeforeStop(F, d) ==
    {i \in DataRows : \A j \in 2..i : Fault(F, j) = "none" => DayAt(F, j) >= d}

(* the rows that count for d when every row up to them decodes *)
Hits(F, d) == {i \in BeforeStop(F, d) : Fault(F, i) = "none" /\ DayAt(F, i) = d}

Keys(d) == {d[i].k : i \in 1..Len(d)}

MaxValue(d) ==
    IF d = <<>> THEN 0
    ELSE CHOOSE m \in {d[i].v : i \in 1..Len(d)} : \A j \in 1..Len(d) : d[j].v <= m

Finished == pc = "idle" /\ result.kind # "none"

-----------------------------------------------------------------------------
(* C1: when the data rows all decode, the counts map returned holds exactly *)
(* the cookies of the rows dated on the target date that come before the    *)
(* first row dated earlier, each with the number of such rows; rows dated   *)
(* later add nothing and do not stop the iteration.                         *)
C1_CountsOfTargetRows ==
    (Finished /\ StdFile) =>
        LET F == RowFacts
            counts == result.analysis.cookies_count_map
            hits == Hits(F, target_date)
        IN  (\A i \in DataRows : Fault(F, i) = "none") =>
                /\ result.kind = "ok"
                /\ Keys(counts) = {CookieAt(F, i) : i \in hits}
                /\ Cardinality(Keys(counts)) = Len(counts)
                /\ \A n \in 1..Len(counts) :
                       counts[n].v =
                           Cardinality({i \in hits : CookieAt(F, i) = counts[n].k})

(* a later row, then a counted row, then the stop, then a target row left out *)
C1_Witness ==
    /\ Finished /\ StdFile
    /\ Len(file) = 5
    /\ LET F == RowFacts
       IN  /\ \A i \in DataRows : Fault(F, i) = "none"
           /\ DayAt(F, 2) > target_date /\ DayAt(F, 3) = target_date
           /\ DayAt(F, 4) < target_date /\ DayAt(F, 5) = target_date
    /\ Len(result.analysis.cookies_count_map) = 1

(* C2: after every processed row and in the returned result, max_count is   *)
(* the largest value of the counts map, and 0 when the map is empty.        *)
C2_MaxCountIsMaximum ==
    /\ pc \in {"iter", "idle"} => max_count = MaxValue(cookie_counts)
    /\ result.kind = "ok" =>
           result.analysis.max_count = MaxValue(result.analysis.cookies_count_map)

(* counts 2 and 1, the smaller one counted last *)
C2_Witness ==
    /\ pc = "iter"
    /\ Len(cookie_counts) = 2
    /\ cookie_counts[1].v = 2 /\ cookie_counts[2].v = 1
    /\ max_count = 2

(* C3: get_most_active returns the identifiers whose count is max_count,    *)
(* all of them, each once, in the order in which they were first counted;   *)
(* it returns the empty sequence when no row matched the target date.       *)
C3_MostActive ==
    result.kind = "ok" =>
        LET F == RowFacts
            counts == result.analysis.cookies_count_map
            most == result.most_active
            hits == Hits(F, target_date)
            FirstRow(c) == CHOOSE i \in hits :
                               /\ CookieAt(F, i) = c
                               /\ \A j \in hits : CookieAt(F, j) = c => i <= j
        IN  /\ {most[n] : n \in 1..Len(most)} =
                   {counts[n].k : n \in {m \in 1..Len(counts) :
                                            counts[m].v = result.analysis.max_count}}
            /\ \A a, b \in 1..Len(most) :
                   a < b => most[a] # most[b] /\ FirstRow(most[a]) < FirstRow(most[b])
            /\ (hits = {} => most = <<>>)

(* two identifiers tied at two rows each *)
C3_Witness ==
    /\ Finished /\ result.kind = "ok"
    /\ result.analysis.max_count = 2
    /\ Len(result.most_active) = 2

(* C4: once a row dated earlier than the target date has been decoded, no   *)
(* further row is read in that call: the call has returned a result and the *)
(* stream stands right after that row, whatever follows it.                 *)
C4_EarlyStop ==
    (StdFile /\ pc \in {"iter", "idle"} /\ target_date # 0) =>
        \A i \in 2..csv.position :
            LET r == RowFact(i)
            IN  (r.fault = "none" /\ r.day < target_date) =>
                    /\ csv.position = i
                    /\ pc = "idle"
                    /\ result.kind = "ok"

(* a malformed row right after the row that stopped the call *)
C4_Witness ==
    /\ StdFile /\ Finished /\ result.kind = "ok"
    /\ csv.position \in 2..(Len(file) - 1)
    /\ RowFact(csv.position).fault = "none"
    /\ RowFact(csv.position).day < target_date
    /\ RowFact(csv.position + 1).fault # "none"

(* C5: a row before the early-stop point that does not decode ends the call *)
(* with that error and without a result, whatever was counted before it and *)
(* also when the row would have been dated later than the target date.      *)
C5_DecodeFailureAborts ==
    (Finished /\ StdFile) =>
        LET F == RowFacts
        IN  \A i \in BeforeStop(F, target_date) :
                (Fault(F, i) # "none" /\ \A j \in 2..(i - 1) : Fault(F, j) = "none") =>
                    /\ result.kind = "error"
                    /\ result.error.type = "ValueError"
                    /\ result.error.what = Fault(F, i)
                    /\ result.analysis.cookies_count_map = <<>>
                    /\ result.most_active = <<>>

(* a row counted, then a row with an empty cookie dated later than the target *)
C5_Witness ==
    /\ Finished /\ StdFile
    /\ Len(file) >= 3
    /\ RowFact(2).fault = "none" /\ RowFact(2).day = target_date
    /\ RowFact(3).fault = "cookie" /\ RowFact(3).day > target_date
    /\ result.kind = "error"

(* C6: a call for the date of the first call returns what the first call    *)
(* returned, whatever was done in between.                                  *)
C6_RepeatedCallsAgree ==
    (Finished /\ first.set = "yes" /\ target_date = first.date) =>
        result = first.result

(* a header read and a failed call for another date lie in between *)
C6_Witness ==
    /\ Finished /\ first.set = "yes" /\ target_date = first.date
    /\ {"headers", "raised", "repeat"} \subseteq between
    /\ first.result.kind = "ok"
    /\ first.result.analysis.max_count > 0

(* C7: the constructor fails for every header row that is not the two       *)
(* recognized headers once each, naming the first unsupported name when     *)
(* there is one, and succeeds for the two recognized headers.               *)
C7_ConstructorRejectsOtherHeaders ==
    pc # "new" =>
        IF StdFile
        THEN pc # "failed"
        ELSE /\ pc = "failed"
             /\ \A n \in 1..Len(HeaderNames) :
                    (/\ HeaderNames[n] \notin {<<"cookie">>, <<"timestamp">>}
                     /\ \A m \in 1..(n - 1) :
                            HeaderNames[m] \in {<<"cookie">>, <<"timestamp">>})
                    => init_error.what = "header" /\ init_error.value = HeaderNames[n]

(* C8: the line number of a row error is the position of the row's line in  *)
(* the file, the header row being line 1, on every call.                    *)
C8_ErrorLineNumber ==
    (StdFile /\ result.kind = "error"
        /\ result.error.what \in {"columns", "cookie", "timestamp"}) =>
        /\ result.error.line \in DataRows
        /\ RowFact(result.error.line).fault = result.error.what
        /\ \A j \in 2..(result.error.line - 1) : RowFact(j).fault = "none"

(* the error of line 3 after a call that stopped early and a header read *)
C8_Witness ==
    /\ StdFile /\ Finished /\ result.kind = "error"
    /\ result.error.line = 3
    /\ first.set = "yes" /\ first.result.kind = "ok"
    /\ RowFact(2).fault = "none" /\ RowFact(2).day < first.date
    /\ {"headers", "raised"} \subseteq between

(* the file with the two fields of every line exchanged *)
SwapLine(line) ==
    LET pieces == split(SubSeq(line, 1, Len(line) - 1), ",")
    IN  IF Len(pieces) = 2
        THEN pieces[2] \o <<",">> \o pieces[1] \o <<"\n">>
        ELSE line

SwapFile(f) == [i \in 1..Len(f) |-> SwapLine(f[i])]

(* C9: a file with header row timestamp,cookie gives the counts, max_count  *)
(* and most-active list of the file with header row cookie,timestamp and    *)
(* the two fields of every row exchanged.                                   *)
C9_HeaderOrder ==
    (Finished /\ HeaderNames = <<<<"timestamp">>, <<"cookie">>>>) =>
        LET r == Analyse(SwapFile(file), target_date)
        IN  /\ extract_data_from_line(SwapFile(file)[1]) =
                   <<<<"cookie">>, <<"timestamp">>>>
            /\ r.kind = result.kind
            /\ r.analysis = result.analysis
            /\ r.most_active = result.most_active

C9_Witness ==
    /\ Finished /\ HeaderNames = <<<<"timestamp">>, <<"cookie">>>>
    /\ result.kind = "ok"
    /\ Len(result.analysis.cookies_count_map) = 2
    /\ result.analysis.max_count = 2

(* does the date text name a date *)
DateInputOk == Len(date_input) = 1 /\ date_input[1] \in {"2021-12-09", "2021-12-08"}
DayOfInput == IF date_input[1] = "2021-12-09" THEN 9 ELSE 8

(* a run that has not ended stands before a step of main or of the loop *)
AtStepOfMain ==
    \/ cli.pc \in {"args", "dated"}
    \/ cli.pc = "opened" /\ pc \in {"new", "failed"}
    \/ cli.pc = "opened" /\ pc = "idle" /\ result.kind \in {"none", "ok", "error"}
    \/ cli.pc = "opened" /\ pc = "iter"
            /\ Round.branch \in {"skip", "count", "break", "raise", "exhausted"}

====
